---- MODULE Spec2Model ----
(***************************************************************************)
(* State-machine model of wifi.cpp: the three access points (WiFi 4,       *)
(* WiFi 5, WiFi 6), their users and the run functions main() calls.        *)
(*                                                                         *)
(* Units.  Every time (a latency in ms, a duration in s) is held as a      *)
(* whole number of ticks of 10 ns = 1e-5 ms = 1e-8 s, in which every time  *)
(* the program forms is a whole number: a contention delay is              *)
(* (rand() % 50) * 0.001 ms = 100 ticks per unit drawn, a backoff interval *)
(* of b ms is b * 100000 ticks, the ideal packet duration                  *)
(* 8192 / 133333333.33 s = 0.06144 ms is 6144 ticks.  Throughputs are held *)
(* in thirds of a Mbps (transferRate / 1e6 = 133.33 Mbps = 400 thirds).    *)
(* A quotient of doubles is held rounded to the nearest unit (the doubles   *)
(* themselves carry a relative error of about 1e-16 per operation, far     *)
(* below half a unit); a quotient 0.0 / 0 is held as NaN.                  *)
(***************************************************************************)
EXTENDS Integers, Sequences, FiniteSets, TLC

(* ---- bounds of the model ---- *)
MaxClients == 3
MaxPackets == 3
MaxAttempts == 6
MaxFixedClients == 10

MaxCalls == 12

(* ---- program constants ---- *)
packetSizeInBits == 8192
transferRate == 400
idealDuration == 6144
ThroughputScale == 300
TicksPerMs == 100000
ContentionTick == 100
MaxBackoff == 450
SubChannelCount == 10
LatencyDrawTick == 10000
Gen5Congestion == 10
NaN == -1

(* ---- the values of rand() the model follows ---- *)
\* rand() itself: any value at every call (source = Rand), of which the model
\* follows the values below; or a source that returns the same value v at every
\* call (source = v), a run of the program in which every draw happens to be v.
Rand == -1
FixedSources == {0, 9, 10, 15, 49, 50, 149}
ContentionDraws == {0, 49}
CollisionDraws == {0, 9, 10, 15, 49, 50, 149}
BackoffDraws == {0, 20}
LatencyDraws == {0, 99}
Garbage == {0, 7}

PacketCounts == (-1) .. MaxPackets

VARIABLES
    pc,                  \* position of main: "main", "setup", "simulate", "display", "done", "crashed"
    gen,                 \* choice read by main: 4, 5, 6 (0: no run in progress)
    numClients,          \* argument of the run function
    numPackets,          \* argument of the run function
    channel,             \* FreqChannel::state of the access point's channel
    clients,             \* WiFi4AccessPoint::clients / WiFi5AccessPoint::users (WiFiUser)
    users,               \* WiFi6AccessPoint::users (WiFi6User::allocatedSubChannel)
    latencyRecords,      \* WiFi4AccessPoint::latencyRecords
    successfulTransfers, \* WiFi4AccessPoint::successfulTransfers
    totalDuration,       \* WiFi4AccessPoint::totalDuration
    latencies,           \* simulateMU_MIMO's latencies / simulateOFDMA's userLatencies
    totalThroughput,     \* simulateMU_MIMO's / simulateOFDMA's totalThroughput
    packetIndex,         \* outer loop counter (packetIndex, i, t)
    clientIndex,         \* inner loop position, 1-based
    subChannelIndex,     \* simulateOFDMA's subChannelIndex
    result,              \* the statistics last printed
    source,              \* the variate source of the run: Rand, or the value of every draw
    attempts,            \* history: the calls of attemptToTransmit / attemptTransmission of this run
    drawn,               \* history: the outcomes of the collision draws of this run
    userLog              \* history, per WiFiUser: what its last attemptToTransmit call did
                         \* and the collisions it drew since its last success

vars == <<pc, gen, numClients, numPackets, channel, clients, users, latencyRecords,
          successfulTransfers, totalDuration, latencies, totalThroughput,
          packetIndex, clientIndex, subChannelIndex, result, source, attempts, drawn, userLog>>

params == <<gen, numClients, numPackets, source>>
ap4 == <<latencyRecords, successfulTransfers, totalDuration>>
ap56 == <<latencies, totalThroughput, subChannelIndex, users>>
history == <<attempts, drawn, userLog>>

(* ---- helpers ---- *)
Min(a, b) == IF b < a THEN b ELSE a

RECURSIVE Pow2(_)
Pow2(n) == IF n <= 0 THEN 1 ELSE 2 * Pow2(n - 1)

RECURSIVE SumSeq(_)
SumSeq(s) == IF s = <<>> THEN 0 ELSE Head(s) + SumSeq(Tail(s))

RECURSIVE MaxSeq(_)
MaxSeq(s) == IF Len(s) = 1 THEN s[1]
             ELSE LET m == MaxSeq(Tail(s)) IN IF m > s[1] THEN m ELSE s[1]

\* a / b for a >= 0 and b > 0, to the nearest unit
Quotient(a, b) == (2 * a + b) \div (2 * b)

NoResult == [throughput |-> 0, achievable |-> 0, avgLatency |-> 0, peakLatency |-> 0,
             faults |-> {}]

\* rand() % m: the values a call can give, `followed` being those the model
\* follows of rand() itself
RandMod(m, followed) == IF source = Rand THEN followed ELSE {source % m}

(* ---- WiFiUser ---- *)

\* the backoff without its cap
resetBackoffInterval_NoCap(draw, collisionCount) ==
    (draw + 1) * Pow2(Min(collisionCount, 9))

\* std::min((rand() % 21 + 1) * pow(2, collisionCount), 450.0), draw being
\* rand() % 21; the exponent is capped where the product exceeds the cap for
\* every draw.
resetBackoffInterval(draw, collisionCount) ==
    Min((draw + 1) * Pow2(Min(collisionCount, 9)), MaxBackoff)

\* the constructor leaving the user waiting
WiFiUser_StartsWaiting(draw) ==
    [backoffInterval |-> resetBackoffInterval(draw, 0),
     collisionCount |-> 0,
     waitingForAccess |-> TRUE]

WiFiUser(draw) ==
    [backoffInterval |-> resetBackoffInterval(draw, 0),
     collisionCount |-> 0,
     waitingForAccess |-> FALSE]

\* rand() % 150 < congestionFactor * 100, congestionFactor given in percent
collisionOccurred(draw, congestionPercent) == draw < congestionPercent

\* attemptToTransmit clearing the waiting flag and drawing all the same
attemptToTransmit_WaitDraws(user, ch, latency, congestionPercent, collisionDraw, backoffDraw) ==
    IF ~collisionOccurred(collisionDraw, congestionPercent)
    THEN [user |-> [user EXCEPT !.collisionCount = 0, !.waitingForAccess = FALSE],
          channel |-> "FREE",
          latency |-> latency + user.backoffInterval * TicksPerMs,
          ok |-> TRUE, drew |-> "clear"]
    ELSE [user |-> [user EXCEPT
                      !.collisionCount = @ + 1,
                      !.backoffInterval = resetBackoffInterval(backoffDraw, user.collisionCount + 1),
                      !.waitingForAccess = TRUE],
          channel |-> ch, latency |-> latency, ok |-> FALSE, drew |-> "collision"]

\* attemptToTransmit keeping collisionCount on a success
attemptToTransmit_NoReset(user, ch, latency, congestionPercent, collisionDraw, backoffDraw) ==
    IF user.waitingForAccess
    THEN [user |-> [user EXCEPT !.waitingForAccess = FALSE],
          channel |-> ch, latency |-> latency, ok |-> FALSE, drew |-> "none"]
    ELSE IF ~collisionOccurred(collisionDraw, congestionPercent)
    THEN [user |-> user,
          channel |-> "FREE",
          latency |-> latency + user.backoffInterval * TicksPerMs,
          ok |-> TRUE, drew |-> "clear"]
    ELSE [user |-> [user EXCEPT
                      !.collisionCount = @ + 1,
                      !.backoffInterval = resetBackoffInterval(backoffDraw, user.collisionCount + 1),
                      !.waitingForAccess = TRUE],
          channel |-> ch, latency |-> latency, ok |-> FALSE, drew |-> "collision"]

\* attemptToTransmit leaving the channel OCCUPIED after its transmission
attemptToTransmit_NoRelease(user, ch, latency, congestionPercent, collisionDraw, backoffDraw) ==
    IF user.waitingForAccess
    THEN [user |-> [user EXCEPT !.waitingForAccess = FALSE],
          channel |-> ch, latency |-> latency, ok |-> FALSE, drew |-> "none"]
    ELSE IF ~collisionOccurred(collisionDraw, congestionPercent)
    THEN [user |-> [user EXCEPT !.collisionCount = 0],
          channel |-> "OCCUPIED",
          latency |-> latency + user.backoffInterval * TicksPerMs,
          ok |-> TRUE, drew |-> "clear"]
    ELSE [user |-> [user EXCEPT
                      !.collisionCount = @ + 1,
                      !.backoffInterval = resetBackoffInterval(backoffDraw, user.collisionCount + 1),
                      !.waitingForAccess = TRUE],
          channel |-> ch, latency |-> latency, ok |-> FALSE, drew |-> "collision"]

\* attemptToTransmit zeroing the caller's latency on a collision
attemptToTransmit_CollisionZeroes(user, ch, latency, congestionPercent, collisionDraw, backoffDraw) ==
    IF user.waitingForAccess
    THEN [user |-> [user EXCEPT !.waitingForAccess = FALSE],
          channel |-> ch, latency |-> latency, ok |-> FALSE, drew |-> "none"]
    ELSE IF ~collisionOccurred(collisionDraw, congestionPercent)
    THEN [user |-> [user EXCEPT !.collisionCount = 0],
          channel |-> "FREE",
          latency |-> latency + user.backoffInterval * TicksPerMs,
          ok |-> TRUE, drew |-> "clear"]
    ELSE [user |-> [user EXCEPT
                      !.collisionCount = @ + 1,
                      !.backoffInterval = resetBackoffInterval(backoffDraw, user.collisionCount + 1),
                      !.waitingForAccess = TRUE],
          channel |-> ch, latency |-> 0, ok |-> FALSE, drew |-> "collision"]

\* attemptToTransmit not clearing the waiting flag
attemptToTransmit_StaysWaiting(user, ch, latency, congestionPercent, collisionDraw, backoffDraw) ==
    IF user.waitingForAccess
    THEN [user |-> user,
          channel |-> ch, latency |-> latency, ok |-> FALSE, drew |-> "none"]
    ELSE IF ~collisionOccurred(collisionDraw, congestionPercent)
    THEN [user |-> [user EXCEPT !.collisionCount = 0],
          channel |-> "FREE",
          latency |-> latency + user.backoffInterval * TicksPerMs,
          ok |-> TRUE, drew |-> "clear"]
    ELSE [user |-> [user EXCEPT
                      !.collisionCount = @ + 1,
                      !.backoffInterval = resetBackoffInterval(backoffDraw, user.collisionCount + 1),
                      !.waitingForAccess = TRUE],
          channel |-> ch, latency |-> latency, ok |-> FALSE, drew |-> "collision"]

\* attemptToTransmit not counting the collision
attemptToTransmit_NoCount(user, ch, latency, congestionPercent, collisionDraw, backoffDraw) ==
    IF user.waitingForAccess
    THEN [user |-> [user EXCEPT !.waitingForAccess = FALSE],
          channel |-> ch, latency |-> latency, ok |-> FALSE, drew |-> "none"]
    ELSE IF ~collisionOccurred(collisionDraw, congestionPercent)
    THEN [user |-> [user EXCEPT !.collisionCount = 0],
          channel |-> "FREE",
          latency |-> latency + user.backoffInterval * TicksPerMs,
          ok |-> TRUE, drew |-> "clear"]
    ELSE [user |-> [user EXCEPT
                      !.backoffInterval = resetBackoffInterval(backoffDraw, user.collisionCount),
                      !.waitingForAccess = TRUE],
          channel |-> ch, latency |-> latency, ok |-> FALSE, drew |-> "collision"]

\* attemptToTransmit(channel, latency, congestionFactor): the user, the channel and
\* the caller's latency after the call, and the value returned
attemptToTransmit(user, ch, latency, congestionPercent, collisionDraw, backoffDraw) ==
    IF user.waitingForAccess
    THEN [user |-> [user EXCEPT !.waitingForAccess = FALSE],
          channel |-> ch, latency |-> latency, ok |-> FALSE, drew |-> "none"]
    ELSE IF ~collisionOccurred(collisionDraw, congestionPercent)
    THEN [user |-> [user EXCEPT !.collisionCount = 0],
          channel |-> "FREE",
          latency |-> latency + user.backoffInterval * TicksPerMs,
          ok |-> TRUE, drew |-> "clear"]
    ELSE [user |-> [user EXCEPT
                      !.collisionCount = @ + 1,
                      !.backoffInterval = resetBackoffInterval(backoffDraw, user.collisionCount + 1),
                      !.waitingForAccess = TRUE],
          channel |-> ch, latency |-> latency, ok |-> FALSE, drew |-> "collision"]

\* the history of a user just constructed, and after a call that drew `drew`
\* ("none": the call was skipped)
NewLog == [last |-> "new", collisions |-> 0]

logAttempt(entry, drew) ==
    [last |-> IF drew = "none" THEN "skip" ELSE drew,
     collisions |-> IF drew = "collision" THEN entry.collisions + 1
                    ELSE IF drew = "clear" THEN 0
                    ELSE entry.collisions]

(* ---- WiFi4AccessPoint ---- *)

\* the loop guard stopping one round early
loopContinues_EndsEarly(index, packets) == index < packets - 1

\* the loop guard written with <=
loopContinues_OffByOne(index, packets) == index <= packets

\* the guard of the packet loops: packetIndex < numPackets, i < numPackets, t < numPackets
loopContinues(index, packets) == index < packets

\* no single user scenario
isSingleUser_Never(n) == FALSE

\* clients.size() == 1: the single user scenario
isSingleUser(n) == n = 1

\* the duration not accumulated
addDuration_Dropped(total, latency) == total

\* totalDuration += idealDuration; totalDuration += (totalLatency / 1000)
addDuration(total, latency) == total + latency

\* std::min(0.05 * clients.size(), 0.5) * 100 as the doubles give it: the least
\* whole number a draw must reach not to collide (0.05 * 3 and 0.05 * 6 round up)
congestion(n) ==
    LET exact == Min(5 * n, 50)
    IN IF n \in {3, 6} THEN exact + 1 ELSE exact

Init ==
    /\ pc = "main"
    /\ gen = 0
    /\ numClients = 0
    /\ numPackets = 0
    /\ channel = "FREE"
    /\ clients = <<>>
    /\ users = <<>>
    /\ latencyRecords = <<>>
    /\ successfulTransfers = 0
    /\ totalDuration = 0
    /\ latencies = <<>>
    /\ totalThroughput = 0
    /\ packetIndex = 0
    /\ clientIndex = 1
    /\ subChannelIndex = 0
    /\ result = NoResult
    /\ source \in {Rand} \cup FixedSources
    /\ attempts = 0
    /\ drawn = {}
    /\ userLog = <<>>

\* main reads the choice and the number of packets and calls run...Simulation,
\* which constructs the access point
\* The runs followed: those of WiFi 4 and WiFi 5 under rand() make at most
\* MaxAttempts attempts; the others (one path each) have up to MaxFixedClients clients.
Followed(g, n, p) ==
    IF g = 6 \/ source # Rand
    THEN n <= MaxFixedClients
    ELSE n <= MaxClients /\ n * p <= MaxAttempts

RunSimulation ==
    /\ pc = "main"
    /\ \E g \in {4, 5, 6} : \E n \in 1 .. MaxFixedClients : \E p \in PacketCounts :
          /\ Followed(g, n, p)
          /\ gen' = g
          /\ numClients' = n
          /\ numPackets' = p
    /\ source' = source
    /\ pc' = "setup"
    /\ channel' = "FREE"
    /\ clients' = <<>>
    /\ users' = <<>>
    /\ latencyRecords' = <<>>
    /\ successfulTransfers' = 0
    /\ totalDuration' = 0
    /\ latencies' = <<>>
    /\ totalThroughput' = 0
    /\ packetIndex' = 0
    /\ clientIndex' = 1
    /\ subChannelIndex' = 0
    /\ result' = NoResult
    /\ attempts' = 0
    /\ drawn' = {}
    /\ userLog' = <<>>

\* ap.addClient(WiFiUser(i)) / ap.registerUser(new WiFiUser(i))
addClient ==
    /\ pc = "setup"
    /\ gen \in {4, 5}
    /\ Len(clients) < numClients
    /\ \E d \in RandMod(21, BackoffDraws) : clients' = Append(clients, WiFiUser(d))
    /\ userLog' = Append(userLog, NewLog)
    /\ UNCHANGED <<pc, params, channel, ap4, ap56, packetIndex, clientIndex, result,
                   attempts, drawn>>

\* simulateNetwork, up to its loops
simulateNetwork ==
    /\ pc = "setup"
    /\ gen = 4
    /\ Len(clients) = numClients
    /\ pc' = "simulate"
    /\ latencyRecords' = <<>>
    /\ successfulTransfers' = 0
    /\ totalDuration' = 0
    /\ packetIndex' = 0
    /\ clientIndex' = 1
    /\ UNCHANGED <<params, channel, clients, ap56, result, history>>

\* one iteration of the single-user loop
singleUserPacket ==
    /\ pc = "simulate"
    /\ gen = 4
    /\ isSingleUser(Len(clients))
    /\ loopContinues(packetIndex, numPackets)
    /\ latencyRecords' = Append(latencyRecords, idealDuration)
    /\ successfulTransfers' = successfulTransfers + 1
    /\ totalDuration' = addDuration(totalDuration, idealDuration)
    /\ packetIndex' = packetIndex + 1
    /\ UNCHANGED <<pc, params, channel, clients, ap56, clientIndex, result, history>>

\* one iteration of the inner loop of the multiple-users scenario
multiUserAttempt ==
    /\ pc = "simulate"
    /\ gen = 4
    /\ ~isSingleUser(Len(clients))
    /\ loopContinues(packetIndex, numPackets)
    /\ clientIndex <= Len(clients)
    /\ \E cd \in RandMod(50, ContentionDraws), xd \in RandMod(150, CollisionDraws),
          bd \in RandMod(21, BackoffDraws) :
          LET contentionDelay == cd * ContentionTick
              backoffDelay == clients[clientIndex].backoffInterval * TicksPerMs
              r == attemptToTransmit(clients[clientIndex], channel,
                                     contentionDelay + backoffDelay,
                                     congestion(Len(clients)), xd, bd)
              totalLatency == IF r.ok THEN r.latency + idealDuration ELSE r.latency
          IN /\ clients' = [clients EXCEPT ![clientIndex] = r.user]
             /\ channel' = r.channel
             /\ latencyRecords' = IF r.ok THEN Append(latencyRecords, totalLatency)
                                  ELSE latencyRecords
             /\ successfulTransfers' = IF r.ok THEN successfulTransfers + 1
                                       ELSE successfulTransfers
             /\ totalDuration' = addDuration(totalDuration, totalLatency)
             /\ drawn' = IF r.drew = "none" THEN drawn ELSE drawn \cup {r.drew}
             /\ attempts' = attempts + 1
             /\ userLog' = [userLog EXCEPT ![clientIndex] = logAttempt(@, r.drew)]
    /\ IF clientIndex = Len(clients)
       THEN packetIndex' = packetIndex + 1 /\ clientIndex' = 1
       ELSE packetIndex' = packetIndex /\ clientIndex' = clientIndex + 1
    /\ UNCHANGED <<pc, params, ap56, result>>

\* the loops of simulateNetwork are over: it returns
endSimulateNetwork ==
    /\ pc = "simulate"
    /\ gen = 4
    /\ ~loopContinues(packetIndex, numPackets)
    /\ pc' = "display"
    /\ UNCHANGED <<params, channel, clients, ap4, ap56, packetIndex, clientIndex, result, history>>

\* the figures displayStatistics prints
Statistics4(succ, duration, records) ==
    LET maxPossibleThroughput == transferRate
        \* x / 0.0 is NaN for x = 0 and +infinity otherwise, which std::min caps
        actualThroughput == IF duration = 0
                            THEN (IF succ = 0 THEN NaN ELSE maxPossibleThroughput + 1)
                            ELSE Quotient(succ * packetSizeInBits * ThroughputScale, duration)
        \* std::min(a, b) is (b < a) ? b : a, and no comparison with NaN holds
        achievableThroughput == IF actualThroughput = NaN THEN NaN
                                ELSE Min(actualThroughput, maxPossibleThroughput)
        avgLatency == IF records = <<>> THEN 0 ELSE Quotient(SumSeq(records), Len(records))
        peakLatency == IF records = <<>> THEN 0 ELSE MaxSeq(records)
    IN [throughput |-> maxPossibleThroughput,
        achievable |-> achievableThroughput,
        avgLatency |-> avgLatency,
        peakLatency |-> peakLatency,
        faults |-> IF duration = 0 THEN {"zero_duration"} ELSE {}]

\* displayStatistics consuming the records it printed
displayStatistics_Clears ==
    /\ pc \in {"display", "done"}
    /\ gen = 4
    /\ result' = Statistics4(successfulTransfers, totalDuration, latencyRecords)
    /\ pc' = "done"
    /\ latencyRecords' = <<>>
    /\ UNCHANGED <<params, channel, clients, successfulTransfers, totalDuration, ap56,
                   packetIndex, clientIndex, history>>

\* displayStatistics() const, called by runWiFi4Simulation once simulateNetwork has
\* returned; a caller may call it again on the finished access point
displayStatistics ==
    /\ pc \in {"display", "done"}
    /\ gen = 4
    /\ result' = Statistics4(successfulTransfers, totalDuration, latencyRecords)
    /\ pc' = "done"
    /\ UNCHANGED <<params, channel, clients, ap4, ap56, packetIndex, clientIndex, history>>

(* ---- WiFi5AccessPoint ---- *)

\* simulateMU_MIMO, up to its loops
simulateMU_MIMO ==
    /\ pc = "setup"
    /\ gen = 5
    /\ Len(clients) = numClients
    /\ pc' = "simulate"
    /\ latencies' = <<>>
    /\ totalThroughput' = 0
    /\ packetIndex' = 0
    /\ clientIndex' = 1
    /\ UNCHANGED <<params, channel, clients, ap4, users, subChannelIndex, result, history>>

\* one iteration of the inner loop of simulateMU_MIMO
attemptMU_MIMO ==
    /\ pc = "simulate"
    /\ gen = 5
    /\ loopContinues(packetIndex, numPackets)
    /\ clientIndex <= Len(clients)
    /\ \E xd \in RandMod(150, CollisionDraws), bd \in RandMod(21, BackoffDraws) :
          LET r == attemptToTransmit(clients[clientIndex], channel, 0,
                                     Gen5Congestion, xd, bd)
          IN /\ clients' = [clients EXCEPT ![clientIndex] = r.user]
             /\ channel' = r.channel
             /\ totalThroughput' = IF r.ok THEN totalThroughput + transferRate
                                   ELSE totalThroughput
             /\ latencies' = IF r.ok THEN Append(latencies, r.latency) ELSE latencies
             /\ drawn' = IF r.drew = "none" THEN drawn ELSE drawn \cup {r.drew}
             /\ attempts' = attempts + 1
             /\ userLog' = [userLog EXCEPT ![clientIndex] = logAttempt(@, r.drew)]
    /\ IF clientIndex = Len(clients)
       THEN packetIndex' = packetIndex + 1 /\ clientIndex' = 1
       ELSE packetIndex' = packetIndex /\ clientIndex' = clientIndex + 1
    /\ UNCHANGED <<pc, params, ap4, users, subChannelIndex, result>>

\* "Calculate statistics" of simulateMU_MIMO and simulateOFDMA, which do not guard
\* the empty vector: accumulate(...) / 0 is 0.0 / 0 = NaN, and *max_element of an
\* empty vector reads through end(), which is undefined: `peak` is what that read
\* gives when the program survives it.
Statistics56(throughput, lats, peak) ==
    [throughput |-> throughput,
     achievable |-> throughput,
     avgLatency |-> IF lats = <<>> THEN NaN ELSE Quotient(SumSeq(lats), Len(lats)),
     peakLatency |-> IF lats = <<>> THEN peak ELSE MaxSeq(lats),
     faults |-> IF lats = <<>> THEN {"zero_count", "max_of_empty"} ELSE {}]

\* the loops are over: the statistics are computed and printed, or the read
\* through end() ends the program
calculateStatistics ==
    /\ pc = "simulate"
    /\ gen \in {5, 6}
    /\ ~loopContinues(packetIndex, numPackets)
    /\ \/ /\ \E g \in Garbage :
                result' = Statistics56(totalThroughput, latencies, g)
          /\ pc' = "done"
       \/ /\ latencies = <<>>
          /\ result' = [NoResult EXCEPT !.faults = {"max_of_empty"}]
          /\ pc' = "crashed"
    /\ UNCHANGED <<params, channel, clients, ap4, ap56, packetIndex, clientIndex, history>>

(* ---- WiFi6User, WiFi6AccessPoint ---- *)

\* ap.registerUser(new WiFi6User(i))
registerUser ==
    /\ pc = "setup"
    /\ gen = 6
    /\ Len(users) < numClients
    /\ users' = Append(users, -1)
    /\ UNCHANGED <<pc, params, channel, clients, ap4, latencies, totalThroughput,
                   subChannelIndex, packetIndex, clientIndex, result, history>>

\* simulateOFDMA, up to its loops
simulateOFDMA ==
    /\ pc = "setup"
    /\ gen = 6
    /\ Len(users) = numClients
    /\ pc' = "simulate"
    /\ latencies' = <<>>
    /\ totalThroughput' = 0
    /\ subChannelIndex' = 0
    /\ packetIndex' = 0
    /\ clientIndex' = 1
    /\ UNCHANGED <<params, channel, clients, ap4, users, result, history>>

\* attemptTransmission releasing the channel after its transmission
attemptTransmission_Releases(allocatedSubChannel, ch, subChannel) ==
    IF allocatedSubChannel = subChannel /\ ch = "FREE"
    THEN [channel |-> "FREE", ok |-> TRUE]
    ELSE [channel |-> ch, ok |-> FALSE]

\* WiFi6User::attemptTransmission(channel, subChannel): the channel after the call
\* and the value returned
attemptTransmission(allocatedSubChannel, ch, subChannel) ==
    IF allocatedSubChannel = subChannel /\ ch = "FREE"
    THEN [channel |-> "OCCUPIED", ok |-> TRUE]
    ELSE [channel |-> ch, ok |-> FALSE]

\* the index not advanced
nextSubChannel_Stuck(index) == index

\* subChannelIndex = (subChannelIndex + 1) % 10
nextSubChannel(index) == (index + 1) % SubChannelCount

\* one iteration of the inner loop of simulateOFDMA
attemptOFDMA ==
    /\ pc = "simulate"
    /\ gen = 6
    /\ loopContinues(packetIndex, numPackets)
    /\ clientIndex <= Len(users)
    /\ users' = [users EXCEPT ![clientIndex] = subChannelIndex]
    /\ LET r == attemptTransmission(subChannelIndex, channel, subChannelIndex)
       IN /\ channel' = r.channel
          /\ totalThroughput' = IF r.ok THEN totalThroughput + Quotient(transferRate, Len(users))
                                ELSE totalThroughput
          /\ IF r.ok
             THEN \E d \in RandMod(100, LatencyDraws) :
                     latencies' = Append(latencies, d * LatencyDrawTick)
             ELSE latencies' = latencies
    /\ subChannelIndex' = nextSubChannel(subChannelIndex)
    /\ IF clientIndex = Len(users)
       THEN packetIndex' = packetIndex + 1 /\ clientIndex' = 1
       ELSE packetIndex' = packetIndex /\ clientIndex' = clientIndex + 1
    /\ attempts' = attempts + 1
    /\ UNCHANGED <<pc, params, clients, ap4, result, drawn, userLog>>

(* ---- a WiFiUser on its own ---- *)

\* A WiFiUser constructed and then called any number of times (up to MaxCalls),
\* with any congestion factor an access point passes and any draws.
UserBackoffDraws == 0 .. 20
UserCongestions == {5, 10, 16, 50}

InitUser ==
    /\ pc = "user"
    /\ gen = 0
    /\ numClients = 0
    /\ numPackets = 0
    /\ channel = "FREE"
    /\ clients = <<>>
    /\ users = <<>>
    /\ latencyRecords = <<>>
    /\ successfulTransfers = 0
    /\ totalDuration = 0
    /\ latencies = <<>>
    /\ totalThroughput = 0
    /\ packetIndex = 0
    /\ clientIndex = 1
    /\ subChannelIndex = 0
    /\ result = NoResult
    /\ source = Rand
    /\ attempts = 0
    /\ drawn = {}
    /\ userLog = <<>>

\* WiFiUser(id)
constructUser ==
    /\ pc = "user"
    /\ clients = <<>>
    /\ \E d \in UserBackoffDraws : clients' = <<WiFiUser(d)>>
    /\ userLog' = <<NewLog>>
    /\ UNCHANGED <<pc, params, channel, ap4, ap56, packetIndex, clientIndex, result,
                   attempts, drawn>>

\* user.attemptToTransmit(channel, latency, congestionFactor)
callAttempt ==
    /\ pc = "user"
    /\ Len(clients) = 1
    /\ attempts < MaxCalls
    /\ \E c \in UserCongestions, xd \in CollisionDraws, bd \in UserBackoffDraws :
          LET r == attemptToTransmit(clients[1], channel, 0, c, xd, bd)
          IN /\ clients' = <<r.user>>
             /\ channel' = r.channel
             /\ drawn' = IF r.drew = "none" THEN drawn ELSE drawn \cup {r.drew}
             /\ attempts' = attempts + 1
             /\ userLog' = <<logAttempt(userLog[1], r.drew)>>
    /\ UNCHANGED <<pc, params, ap4, ap56, packetIndex, clientIndex, result>>

NextUser ==
    \/ constructUser
    \/ callAttempt

SpecUser == InitUser /\ [][NextUser]_vars

Next ==
    \/ RunSimulation
    \/ addClient
    \/ simulateNetwork
    \/ singleUserPacket
    \/ multiUserAttempt
    \/ endSimulateNetwork
    \/ displayStatistics
    \/ simulateMU_MIMO
    \/ attemptMU_MIMO
    \/ calculateStatistics
    \/ registerUser
    \/ simulateOFDMA
    \/ attemptOFDMA

Spec == Init /\ [][Next]_vars

\* The program is one sequential thread: a step that can be taken is taken.
FairSpec == Spec /\ WF_vars(Next)

(***************************************************************************)
(* Properties                                                              *)
(***************************************************************************)

\* the successes of the run, whichever access point made it
Successes == IF gen = 4 THEN successfulTransfers ELSE Len(latencies)

\* C1: in a WiFi 4 run with numPackets >= 1, successfulTransfers never exceeds
\* numClients * numPackets, in any state of the run
C1_SuccessesBounded ==
    (gen = 4 /\ numPackets >= 1) => successfulTransfers <= numClients * numPackets

C1_Witness ==
    /\ pc = "done" /\ gen = 4 /\ numClients >= 2 /\ numPackets >= 2
    /\ successfulTransfers = numClients * numPackets

C3_NoCollisionAllSucceed ==
    (pc = "done" /\ gen = 4 /\ numPackets >= 1 /\ "collision" \notin drawn) =>
        successfulTransfers = numClients * numPackets

C3_Witness ==
    /\ pc = "done" /\ gen = 4 /\ numClients = 10 /\ numPackets = 1
    /\ drawn = {"clear"}
    /\ attempts = 10
    /\ successfulTransfers = 10

\* C4 as stated: a finished WiFi 4 run of one round in which every collision draw
\* reported a collision has no success and collisionCount = 1 for every client,
\* for every numClients >= 1
C4_AllCollideAnyCount ==
    (pc = "done" /\ gen = 4 /\ numPackets = 1 /\ "clear" \notin drawn) =>
        /\ successfulTransfers = 0
        /\ \A i \in 1 .. Len(clients) : clients[i].collisionCount = 1

\* C4 amended: the same for numClients >= 2 (a single client bypasses contention)
C4_AllCollideMultiUser ==
    (pc = "done" /\ gen = 4 /\ numClients >= 2 /\ numPackets = 1 /\ "clear" \notin drawn) =>
        /\ successfulTransfers = 0
        /\ \A i \in 1 .. Len(clients) : clients[i].collisionCount = 1

C4_Witness ==
    /\ pc = "done" /\ gen = 4 /\ numClients >= 2 /\ numPackets = 1
    /\ drawn = {"collision"}
    /\ attempts = numClients
    /\ successfulTransfers = 0

\* C5: a run of any generation with numPackets >= 1 and no success reports an
\* average and a peak latency of 0, without dividing by an empty count or taking
\* the maximum of an empty sequence
C5_ZeroSuccessZeroStats ==
    (pc \in {"done", "crashed"} /\ numPackets >= 1 /\ Successes = 0) =>
        /\ pc = "done"
        /\ result.avgLatency = 0
        /\ result.peakLatency = 0
        /\ result.faults = {}

\* C6: a finished WiFi 4 run with numPackets >= 1 has a strictly positive
\* totalDuration and reports an achievable throughput that is a number and is at
\* most the maximum throughput
C6_ThroughputCapped ==
    (gen = 4 /\ numPackets >= 1) =>
        /\ pc \in {"display", "done"} => totalDuration > 0
        /\ pc = "done" =>
              /\ result.throughput = transferRate
              /\ result.achievable # NaN
              /\ result.achievable <= result.throughput

C6_Witness ==
    /\ pc = "done" /\ gen = 4 /\ numClients >= 2 /\ numPackets >= 1
    /\ successfulTransfers > 0
    /\ result.achievable > 0
    /\ result.achievable < result.throughput

\* C7: a request with numClients <= 0 or numPackets <= 0 is rejected before any
\* access point, client or channel state is created
C7_InvalidRejected ==
    (gen # 0 /\ (numClients <= 0 \/ numPackets <= 0)) =>
        /\ pc = "rejected"
        /\ clients = <<>>
        /\ users = <<>>

\* the attempt of client i that allocated its sub-channel last, counted from 0
\* over the run (-1: none yet)
LastAttemptOf(i) ==
    IF i < clientIndex THEN packetIndex * Len(users) + (i - 1)
    ELSE IF packetIndex > 0 THEN (packetIndex - 1) * Len(users) + (i - 1)
    ELSE -1

\* C8: in a WiFi 6 run every allocated sub-channel is in 0 .. 9, the k-th attempt
\* of the run is allocated k mod 10, and with 10 clients every client holds a
\* distinct sub-channel once a round is over
C8_RoundRobin ==
    gen = 6 =>
        /\ \A i \in 1 .. Len(users) :
              /\ users[i] \in (-1) .. 9
              /\ users[i] = (IF LastAttemptOf(i) = -1 THEN -1 ELSE LastAttemptOf(i) % 10)
        /\ (numClients = 10 /\ packetIndex >= 1) =>
              \A i, j \in 1 .. Len(users) :
                  /\ users[i] \in 0 .. 9
                  /\ (i # j => users[i] # users[j])

C8_Witness ==
    /\ pc = "done" /\ gen = 6 /\ numClients = 10 /\ numPackets >= 2
    /\ attempts = 10 * numPackets
    /\ \A i \in 1 .. 10 : users[i] = i - 1

\* C9: a WiFi 4 run that ends with totalDuration = 0 and no success is reported
\* with all-zero statistics, without dividing by the zero duration
C9_DegenerateReported ==
    (pc = "done" /\ gen = 4 /\ totalDuration = 0 /\ successfulTransfers = 0) =>
        /\ result.achievable = 0
        /\ result.avgLatency = 0
        /\ result.peakLatency = 0
        /\ result.faults = {}

\* C10: displayStatistics leaves successfulTransfers, totalDuration,
\* latencyRecords, the channel and every client unchanged, and called again on
\* the finished run it reports the same figures
C10_DisplayIdempotent ==
    [][displayStatistics =>
          /\ UNCHANGED <<successfulTransfers, totalDuration, latencyRecords, channel, clients>>
          /\ (pc = "done" =>
                 result' = Statistics4(successfulTransfers', totalDuration', latencyRecords')
                 /\ result' = result)]_vars

C10_Witness ==
    /\ pc = "done" /\ gen = 4 /\ numClients >= 2
    /\ latencyRecords # <<>>
    /\ result = Statistics4(successfulTransfers, totalDuration, latencyRecords)
    /\ ENABLED displayStatistics

\* C11: in a WiFi 6 run the channel is OCCUPIED from the first attempt on and is
\* never FREE again, the first attempt is the only one that succeeds, and a
\* finished run with numPackets >= 1 has exactly one success
C11_SingleWinner ==
    gen = 6 =>
        /\ channel = (IF attempts > 0 THEN "OCCUPIED" ELSE "FREE")
        /\ Len(latencies) = (IF attempts > 0 THEN 1 ELSE 0)
        /\ totalThroughput = Len(latencies) * Quotient(transferRate, numClients)
        /\ (pc \in {"done", "crashed"} /\ numPackets >= 1) =>
              (pc = "done" /\ Len(latencies) = 1)

C11_Witness ==
    /\ pc = "done" /\ gen = 6 /\ numClients >= 2 /\ numPackets >= 2
    /\ attempts = numClients * numPackets
    /\ Len(latencies) = 1
    /\ channel = "OCCUPIED"

\* C12: an attempt of a WiFi 4 / WiFi 5 user whose waiting flag is set clears the
\* flag and fails; it makes no collision draw and leaves collisionCount,
\* backoffInterval, the channel and the caller's latency (contention delay plus
\* backoff, which WiFi 4 adds to totalDuration) as they were
C12_WaitingNoOp ==
    [][((multiUserAttempt \/ attemptMU_MIMO) /\ clients[clientIndex].waitingForAccess) =>
          /\ clients' = [clients EXCEPT ![clientIndex].waitingForAccess = FALSE]
          /\ channel' = channel
          /\ drawn' = drawn
          /\ userLog'[clientIndex].last = "skip"
          /\ successfulTransfers' = successfulTransfers
          /\ latencyRecords' = latencyRecords
          /\ latencies' = latencies
          /\ totalThroughput' = totalThroughput
          /\ gen = 4 =>
                \E cd \in 0 .. 49 :
                    totalDuration' = totalDuration + cd * ContentionTick
                                     + clients[clientIndex].backoffInterval * TicksPerMs
       ]_vars

C12_Witness ==
    /\ gen \in {4, 5} /\ pc = "simulate"
    /\ \E i \in 1 .. Len(clients) :
          /\ userLog[i].last = "skip"
          /\ ~clients[i].waitingForAccess
          /\ clients[i].collisionCount >= 1

\* C13: the collisionCount of every WiFi 4 / WiFi 5 user is the number of
\* collisions it drew since its last success (since its construction if it never
\* succeeded), skipped attempts counting for nothing
C13_CollisionCountExact ==
    gen \in {4, 5} =>
        /\ Len(userLog) = Len(clients)
        /\ \A i \in 1 .. Len(clients) : clients[i].collisionCount = userLog[i].collisions

C13_Witness ==
    /\ gen \in {4, 5}
    /\ \E i, j \in 1 .. Len(clients) :
          /\ clients[i].collisionCount = 2
          /\ userLog[i].collisions = 2
          /\ userLog[j].last = "clear"
          /\ clients[j].collisionCount = 0

\* C14: the latency recorded for a successful WiFi 4 attempt (two clients or
\* more) is the contention delay plus the user's backoffInterval, once, plus the
\* ideal packet duration
C14_BackoffCountedOnce ==
    [][(multiUserAttempt /\ successfulTransfers' = successfulTransfers + 1) =>
          \E cd \in 0 .. 49 :
              latencyRecords'[Len(latencyRecords')] =
                  cd * ContentionTick
                  + clients[clientIndex].backoffInterval * TicksPerMs
                  + idealDuration
       ]_vars

\* C15: the backoffInterval of every WiFi 4 / WiFi 5 user is between 1 and 450
\* in every state, from construction on, and a call changes it only when the
\* call draws a collision
C15_BackoffBounds ==
    /\ [](\A i \in 1 .. Len(clients) :
             /\ 1 <= clients[i].backoffInterval
             /\ clients[i].backoffInterval <= 450)
    /\ [][\A i \in 1 .. Len(clients) :
             (i <= Len(clients') /\ clients'[i].backoffInterval # clients[i].backoffInterval) =>
                 /\ userLog'[i].last = "collision"
                 /\ userLog'[i].collisions = userLog[i].collisions + 1
         ]_vars

C15_Witness ==
    /\ pc = "user"
    /\ Len(clients) = 1
    /\ clients[1].backoffInterval = 450
    /\ clients[1].collisionCount >= 5
    /\ "clear" \in drawn

\* C16: in WiFi 4 and WiFi 5 runs the channel is FREE before and after every
\* attempt, whatever the attempt did (a successful attempt sets it OCCUPIED and
\* FREE again before it returns)
C16_ChannelFreeBetweenAttempts ==
    gen \in {4, 5} => channel = "FREE"

C16_Witness ==
    /\ gen \in {4, 5} /\ pc = "done"
    /\ drawn = {"clear", "collision"}
    /\ \E i \in 1 .. Len(clients) : userLog[i].last = "skip"
    /\ channel = "FREE"

\* C17: every attempt of a multi-client WiFi 4 run strictly increases
\* totalDuration; a failed one (collision or skipped wait) leaves
\* successfulTransfers and latencyRecords unchanged and adds the contention delay
\* plus the backoffInterval the user had before the attempt
C17_FailedAttemptCharged ==
    [][multiUserAttempt =>
          /\ totalDuration' > totalDuration
          /\ userLog'[clientIndex].last # "clear" =>
                /\ successfulTransfers' = successfulTransfers
                /\ latencyRecords' = latencyRecords
                /\ \E cd \in 0 .. 49 :
                      totalDuration' = totalDuration + cd * ContentionTick
                                       + clients[clientIndex].backoffInterval * TicksPerMs
       ]_vars

C17_Witness ==
    /\ gen = 4 /\ pc = "simulate" /\ numClients >= 2
    /\ successfulTransfers = 0
    /\ latencyRecords = <<>>
    /\ totalDuration > 0
    /\ \E i, j \in 1 .. Len(clients) :
          /\ userLog[i].last = "skip"
          /\ userLog[j].last = "collision"
          /\ clients[j].backoffInterval > 21

\* the rounds a run of numPackets packets makes
Rounds == IF numPackets > 0 THEN numPackets ELSE 0

C19_Thresholds ==
    source # Rand =>
        \A i \in 1 .. Len(clients) :
            userLog[i].last \in {"clear", "collision"} =>
                (userLog[i].last = "collision"
                    <=> source % 150 < (IF gen = 5 THEN 10 ELSE Min(5 * numClients, 50)))

\* the attempts user i has made in a run whose engine calls attemptToTransmit
AttemptsOf(i) == packetIndex + (IF i < clientIndex THEN 1 ELSE 0)

\* C20: a WiFi 4 / WiFi 5 user waits exactly when its last attempt drew a
\* collision; its attempt right after a collision is skipped and the attempt after
\* a skipped one draws, so it never skips twice in a row; while every draw of the
\* run collides, a user that made k attempts has collisionCount = ceil(k / 2)
C20_WaitsOneAttempt ==
    /\ [](gen \in {4, 5} =>
             \A i \in 1 .. Len(clients) :
                 /\ clients[i].waitingForAccess <=> userLog[i].last = "collision"
                 /\ ("clear" \notin drawn /\ (gen = 5 \/ numClients >= 2)) =>
                       clients[i].collisionCount = (AttemptsOf(i) + 1) \div 2)
    /\ [][(multiUserAttempt \/ attemptMU_MIMO) =>
             /\ userLog[clientIndex].last = "collision" =>
                   userLog'[clientIndex].last = "skip"
             /\ userLog[clientIndex].last # "collision" =>
                   userLog'[clientIndex].last \in {"clear", "collision"}
         ]_vars

C20_Witness ==
    /\ gen \in {4, 5} /\ pc = "done" /\ numPackets = 3
    /\ drawn = {"collision"}
    /\ \A i \in 1 .. Len(clients) :
          /\ clients[i].collisionCount = 2
          /\ userLog[i].last = "collision"
          /\ clients[i].waitingForAccess

====
